---- MODULE Spec2Model ----
(***************************************************************************)
(* Juizo task pane (src/taskpane/taskpane.ts): the chart editor's          *)
(* auto-update session and the write-back of a query result to a new       *)
(* worksheet table, as state machines over the host (Excel) requests the   *)
(* code issues.  Every `await` of the source is a step boundary: the code  *)
(* between two awaits is one action.                                        *)
(***************************************************************************)
EXTENDS Integers, Sequences, FiniteSets, TLC

\* ------------------------------------------------------------------ bounds
\* Events of one behaviour that come from outside the add-in: the user's clicks
\* on the chart editor's buttons and the user's edits of workbook tables.
MaxEvents == 4
\* Host requests of one outputToExcel call that fail for reasons of their own
\* (a failure that follows from an earlier one is not counted).
MaxFaults == 4
\* Clicks on the two Save buttons of the spec editors in one behaviour.
MaxSaves == 2
\* Rows of the query result whose cells are followed through the write and the
\* read back.
MaxRows == 2
\* Times in a row the sanitization is applied to one cell value.
MaxSanitize == 2
\* Columns of a table that is fetched.
MaxColumns == 3

\* ------------------------------------------------------------------ values
\* The workbook's tables, as offered by the vega-table-select dropdown.
Tables == {"T1", "T2"}
\* The dropdown's empty option ("-- Select Table --").
NoTable == ""
\* JavaScript null, for the table-name global.
NullName == "null"
\* JavaScript null, for a spec reference.
NullSpec == 0
\* JavaScript null, for the handler global.
NoHandler == [id |-> 0, table |-> ""]

\* spec.data of a chart spec: absent, or the rows fetched from a table
\* (identified by the table and the version of its contents).
NoData == [kind |-> "none", table |-> "", ver |-> 0]
Values(t, v) == [kind |-> "values", table |-> t, ver |-> v]

\* A heap cell no live reference points to.
FreeSpec == [data |-> NoData, schema |-> FALSE]
\* The preview area before anything was rendered.
EmptyChart == [kind |-> "empty", table |-> "", ver |-> 0]

VARIABLES
    editorOpen,             \* vega-editor is displayed
    vegaAutoUpdateHandler,  \* the handler global
    vegaCurrentTableName,   \* the table-name global
    vegaCurrentSpec,        \* the spec global: a reference into heap
    heap,                   \* the parsed spec objects (mutated in place by a render)
    subs,                   \* handlers registered on the host (live subscriptions)
    tableData,              \* version of each table's contents
    pending,                \* change notifications raised by the host, not yet delivered
    pvs,                    \* the runVegaPreview invocations in flight
    cl,                     \* the closeVegaEditor invocation
    runs,                   \* the change callbacks in flight
    chart,                  \* the data shown in vega-preview-area
    vegaMessage,            \* vega-message innerText
    console,                \* last console line of the removals and of the callback
    previewed,              \* a preview has completed since the editor was opened
    nEvents               \* outside events so far

vegaVars == <<editorOpen, vegaAutoUpdateHandler, vegaCurrentTableName, vegaCurrentSpec,
              heap, subs, tableData, pending, pvs, cl, runs, chart, vegaMessage,
              console, previewed, nEvents>>

VARIABLES
    wpc,                \* where outputToExcel is suspended
    outputTableName,    \* the text of output-table-name
    code,               \* the query text after defaulting
    numRows,            \* resultTable.numRows()
    wi, wj,             \* the loop indices i and j
    tables,             \* names of the tables the workbook held before the call
    sheet,              \* the new worksheet: "none", "bare" (no table) or "table"
    rowsWritten,        \* rows whose values reached the sheet
    rowsSentinel,       \* rows marked "ERROR WRITING ROW"
    rowsSkipped,        \* rows given up
    injected,           \* kinds of host requests that failed for reasons of their own
    faults,             \* how many did
    arqueroMessage,     \* arquero-message innerText, as the parts appended to it
    settings,           \* the document setting stored under outputTableName
    numCols,            \* headers.length
    target              \* the range of the write that is queued and not yet committed

writeVars == <<wpc, outputTableName, code, numRows, wi, wj, tables, sheet, rowsWritten,
               rowsSentinel, rowsSkipped, injected, faults, arqueroMessage, settings,
               numCols, target>>

VARIABLES
    docSettings,        \* Office.context.document.settings, in memory: key -> value
    vegaSpecSelect,     \* vega-spec-select: its options (by value) and its value
    mermaidSpecSelect,  \* mermaid-spec-select, likewise
    saveStatus,         \* vega-message and mermaid-message as the save handlers write them
    saving,             \* the saveAsync calls whose callback has not run yet
    now,                \* Date.now()
    nSaves              \* clicks on Save so far

saveVars == <<docSettings, vegaSpecSelect, mermaidSpecSelect, saveStatus, saving, now, nSaves>>

VARIABLES
    columns,        \* the column names of the query result, in order
    objects,        \* resultTable.objects(): one function from column name to value per row
    values,         \* the sanitized grid handed to the host
    grid,           \* the cells of the new sheet, row 0 being the header row
    columnData,     \* what getArqueroTableFromExcel builds from the new table
    queued,         \* the loads queued on the request context and not yet sent
    trips,          \* the loads each context.sync of the call has carried to the host
    cellOut,        \* the successive results of sanitizing one cell value
    cpc             \* "start", "sanitized", "written", "fetching", "built", "fetched", "failed"

cellVars == <<columns, objects, values, grid, columnData, queued, trips, cellOut, cpc>>

VARIABLES
    vegaTableSelect     \* the value of vega-table-select

paneVars == <<vegaTableSelect>>

VARIABLES
    lastStored          \* what the latest runVegaPreview that stored the globals stored

histVars == <<lastStored>>

\* The syncs of the write loop, counted.
VARIABLES
    commits,            \* the syncs of the write loop that have returned
    failures            \* those of them that failed
tallyVars == <<commits, failures>>

vars == <<vegaVars, writeVars, saveVars, cellVars, paneVars, histVars, tallyVars>>

\* ---------------------------------------------------------------- helpers
Min(S) == CHOOSE x \in S : \A y \in S : x <= y

\* The heap h with the cells reclaimed that neither the spec global (cur) nor a
\* suspended call (ps, rs) refers to.
Collect(h, cur, ps, rs) ==
    LET live == {cur} \cup {p.spec : p \in ps} \cup {r.spec : r \in rs}
    IN  [r \in DOMAIN h |-> IF r \in live THEN h[r] ELSE FreeSpec]

\* JSON.parse(specStr) allocates a fresh object.
NewRef ==
    Min((1..(MaxEvents)) \
        ({vegaCurrentSpec} \cup {p.spec : p \in pvs} \cup {r.spec : r \in runs}))

\* table.onChanged.add returns a fresh EventHandlerResult for that table.
UsedIds == {h.id : h \in subs \cup {vegaAutoUpdateHandler, cl.h} \cup {p.h : p \in pvs}}
NewHandler(t) == [id |-> Min((1..(MaxEvents)) \ UsedIds), table |-> t]

\* renderVegaChart, between the fetch and vegaEmbed: `delete spec.$schema`, then
\* the fetched rows are injected only if the spec has no data (the "table"
\* placeholder counts as none).
Inject(h, ref, dt) ==
    [h EXCEPT ![ref] = [data |-> IF @.data.kind = "none" THEN dt ELSE @.data,
                        schema |-> FALSE]]

\* ---------------------------------------------------------------- editor
vegaInit ==
    /\ editorOpen = FALSE
    /\ vegaAutoUpdateHandler = NoHandler
    /\ vegaCurrentTableName = NullName
    /\ vegaCurrentSpec = NullSpec
    /\ heap = [r \in 1..(MaxEvents) |-> FreeSpec]
    /\ subs = {}
    /\ tableData = [t \in Tables |-> 0]
    /\ pending = 0
    /\ pvs = {}
    /\ cl = [pc |-> "idle", h |-> NoHandler]
    /\ runs = {}
    /\ chart = EmptyChart
    /\ vegaMessage = ""
    /\ console = [remove |-> "none", auto |-> "none"]
    /\ previewed = FALSE
    /\ nEvents = 0

\* openVegaEditor shows the editor; loading the dropdowns touches nothing of
\* the auto-update session.
openVegaEditor ==
    /\ ~editorOpen
    /\ nEvents < MaxEvents
    /\ nEvents' = nEvents + 1
    /\ editorOpen' = TRUE
    /\ previewed' = FALSE
    /\ UNCHANGED <<vegaAutoUpdateHandler, vegaCurrentTableName, vegaCurrentSpec, heap,
                   subs, tableData, pending, pvs, cl, runs, chart, vegaMessage,
                   console>>

\* No preview has stored anything.
histInit == lastStored = [table |-> NullName, spec |-> NullSpec]

\* `vegaCurrentSpec = spec; vegaCurrentTableName = tableName`, as a record of
\* what was stored: only a preview with a table and a spec text that parses
\* reaches the two assignments.
storesGlobals(tableName, parses) ==
    lastStored' = IF tableName # NoTable /\ parses
                  THEN [table |-> tableName, spec |-> NewRef]
                  ELSE lastStored

\* ---------------------------------------------------------- runVegaPreview
\* Up to the first await: the inputs are read from the DOM, the spec text is
\* parsed, the globals are stored and renderVegaChart starts its fetch.
runVegaPreview(tableName, parses, data) ==
    /\ editorOpen
    /\ nEvents < MaxEvents
    /\ nEvents' = nEvents + 1
    /\ IF tableName = NoTable
       THEN /\ vegaMessage' = "Please select a source table."
            /\ UNCHANGED <<vegaCurrentSpec, vegaCurrentTableName, pvs, heap>>
       ELSE IF ~parses
       THEN /\ vegaMessage' = "Error rendering chart"
            /\ UNCHANGED <<vegaCurrentSpec, vegaCurrentTableName, pvs, heap>>
       ELSE LET p == [pc |-> "fetch", table |-> tableName, spec |-> NewRef,
                      h |-> NoHandler]
            IN  /\ vegaMessage' = "Generating preview..."
                /\ vegaCurrentSpec' = NewRef
                /\ vegaCurrentTableName' = tableName
                /\ pvs' = pvs \cup {p}
                /\ heap' = Collect([heap EXCEPT ![NewRef] = [data |-> data, schema |-> TRUE]],
                                   NewRef, pvs \cup {p}, runs)
    /\ UNCHANGED <<editorOpen, vegaAutoUpdateHandler, subs, tableData, pending, cl, runs,
                   chart, console, previewed>>

\* The preview p fails: the catch of runVegaPreview writes the message.
previewFails(p) ==
    /\ vegaMessage' = "Error rendering chart"
    /\ pvs' = pvs \ {p}
    /\ heap' = Collect(heap, vegaCurrentSpec, pvs \ {p}, runs)

\* renderVegaChart called by the preview: getArqueroTableFromExcel's sync returns.
previewFetched(p, ok) ==
    /\ p \in pvs
    /\ p.pc = "fetch"
    /\ IF ok
       THEN /\ heap' = Inject(heap, p.spec, Values(p.table, tableData[p.table]))
            /\ pvs' = (pvs \ {p}) \cup {[p EXCEPT !.pc = "embed"]}
            /\ UNCHANGED vegaMessage
       ELSE previewFails(p)
    /\ UNCHANGED <<editorOpen, vegaAutoUpdateHandler, vegaCurrentTableName, vegaCurrentSpec,
                   subs, tableData, pending, cl, runs, chart, console, previewed, nEvents>>

\* setupVegaAutoUpdate(tableName), called by preview p, up to its first await,
\* or to its return when neither branch is taken. The globals are read as they
\* are now.
setupVegaAutoUpdate(p, tableName) ==
    IF vegaAutoUpdateHandler # NoHandler /\ vegaCurrentTableName # tableName
    THEN /\ pvs' = (pvs \ {p}) \cup {[p EXCEPT !.pc = "remove", !.h = vegaAutoUpdateHandler]}
         /\ UNCHANGED <<vegaAutoUpdateHandler, previewed, heap>>
    ELSE IF vegaAutoUpdateHandler = NoHandler
    THEN /\ vegaAutoUpdateHandler' = NewHandler(tableName)
         /\ pvs' = (pvs \ {p}) \cup {[p EXCEPT !.pc = "add", !.h = NewHandler(tableName)]}
         /\ UNCHANGED <<previewed, heap>>
    ELSE /\ pvs' = pvs \ {p}
         /\ previewed' = TRUE
         /\ heap' = Collect(heap, vegaCurrentSpec, pvs \ {p}, runs)
         /\ UNCHANGED vegaAutoUpdateHandler

\* vegaEmbed returns to the preview: the chart shows the spec's data, the
\* message is cleared and setupVegaAutoUpdate starts.
previewEmbedded(p, ok) ==
    /\ p \in pvs
    /\ p.pc = "embed"
    /\ IF ok
       THEN /\ chart' = heap[p.spec].data
            /\ vegaMessage' = ""
            /\ setupVegaAutoUpdate(p, p.table)
       ELSE /\ previewFails(p)
            /\ UNCHANGED <<chart, vegaAutoUpdateHandler, previewed>>
    /\ UNCHANGED <<editorOpen, vegaCurrentTableName, vegaCurrentSpec, subs, tableData,
                   pending, cl, runs, console, nEvents>>

\* The sync of the old handler's removal returns (a failure is caught and
\* logged); the handler global is cleared and the add of the new one is queued.
previewRemoved(p, ok) ==
    /\ p \in pvs
    /\ p.pc = "remove"
    /\ subs' = IF ok THEN subs \ {p.h} ELSE subs
    /\ console' = IF ok THEN console
                  ELSE [console EXCEPT !.remove = "Error removing old handler:"]
    /\ vegaAutoUpdateHandler' = NewHandler(p.table)
    /\ pvs' = (pvs \ {p}) \cup {[p EXCEPT !.pc = "add", !.h = NewHandler(p.table)]}
    /\ UNCHANGED <<editorOpen, vegaCurrentTableName, vegaCurrentSpec, heap, tableData,
                   pending, cl, runs, chart, vegaMessage, previewed, nEvents>>

\* The sync that registers the new handler returns. A failure rejects
\* Excel.run and reaches the catch of runVegaPreview; the global keeps the
\* handler object assigned before the sync.
previewAdded(p, ok) ==
    /\ p \in pvs
    /\ p.pc = "add"
    /\ IF ok
       THEN /\ subs' = subs \cup {p.h}
            /\ previewed' = TRUE
            /\ pvs' = pvs \ {p}
            /\ heap' = Collect(heap, vegaCurrentSpec, pvs \ {p}, runs)
            /\ UNCHANGED vegaMessage
       ELSE /\ previewFails(p)
            /\ UNCHANGED <<subs, previewed>>
    /\ UNCHANGED <<editorOpen, vegaAutoUpdateHandler, vegaCurrentTableName, vegaCurrentSpec,
                   tableData, pending, cl, runs, chart, console, nEvents>>

\* --------------------------------------------------------- closeVegaEditor
\* The editor is hidden.
hideEditor ==
    /\ editorOpen' = FALSE
    /\ previewed' = FALSE

\* Up to the await of the removal, or to the end when no handler is stored.
closeVegaEditor ==
    /\ editorOpen
    /\ cl.pc = "idle"
    /\ nEvents < MaxEvents
    /\ nEvents' = nEvents + 1
    /\ IF vegaAutoUpdateHandler # NoHandler
       THEN /\ cl' = [pc |-> "remove", h |-> vegaAutoUpdateHandler]
            /\ UNCHANGED <<editorOpen, previewed>>
       ELSE /\ hideEditor
            /\ UNCHANGED cl
    /\ UNCHANGED <<vegaAutoUpdateHandler, vegaCurrentTableName, vegaCurrentSpec, heap, subs,
                   tableData, pending, pvs, runs, chart, vegaMessage, console>>

\* Mutant: a failed removal is not caught, so the statements after the await
\* are skipped.
closeRemovedUncaught(ok) ==
    /\ cl.pc = "remove"
    /\ subs' = IF ok THEN subs \ {cl.h} ELSE subs
    /\ console' = console
    /\ vegaAutoUpdateHandler' = IF ok THEN NoHandler ELSE vegaAutoUpdateHandler
    /\ vegaCurrentTableName' = IF ok THEN NullName ELSE vegaCurrentTableName
    /\ vegaCurrentSpec' = IF ok THEN NullSpec ELSE vegaCurrentSpec
    /\ cl' = [pc |-> "idle", h |-> NoHandler]
    /\ IF ok THEN hideEditor ELSE UNCHANGED <<editorOpen, previewed>>
    /\ heap' = Collect(heap, IF ok THEN NullSpec ELSE vegaCurrentSpec, pvs, runs)
    /\ UNCHANGED <<tableData, pending, pvs, runs, chart, vegaMessage, nEvents>>

\* The removal's sync returns (a failure is caught and logged), the three
\* globals are cleared and the editor is hidden.
closeRemoved(ok) ==
    /\ cl.pc = "remove"
    /\ subs' = IF ok THEN subs \ {cl.h} ELSE subs
    /\ console' = IF ok THEN console
                  ELSE [console EXCEPT !.remove = "Error removing event handler:"]
    /\ vegaAutoUpdateHandler' = NoHandler
    /\ vegaCurrentTableName' = NullName
    /\ vegaCurrentSpec' = NullSpec
    /\ cl' = [pc |-> "idle", h |-> NoHandler]
    /\ hideEditor
    /\ heap' = Collect(heap, NullSpec, pvs, runs)
    /\ UNCHANGED <<tableData, pending, pvs, runs, chart, vegaMessage, nEvents>>

\* ------------------------------------------------- host change notifications
\* The user edits table t: the host raises one notification per handler
\* registered on t.
tableChanged(t) ==
    /\ nEvents < MaxEvents
    /\ nEvents' = nEvents + 1
    /\ tableData' = [tableData EXCEPT ![t] = @ + 1]
    /\ pending' = pending + Cardinality({h \in subs : h.table = t})
    /\ UNCHANGED <<editorOpen, vegaAutoUpdateHandler, vegaCurrentTableName, vegaCurrentSpec,
                   heap, subs, pvs, cl, runs, chart, vegaMessage, console, previewed>>

\* A notification is delivered: the callback calls renderVegaChart with the
\* globals as they are now, which starts its fetch.
onChanged ==
    /\ pending > 0
    /\ pending' = pending - 1
    /\ runs' = runs \cup {[pc |-> "fetch", table |-> vegaCurrentTableName,
                           spec |-> vegaCurrentSpec, dt |-> NoData]}
    /\ UNCHANGED <<editorOpen, vegaAutoUpdateHandler, vegaCurrentTableName, vegaCurrentSpec,
                   heap, subs, tableData, pvs, cl, chart, vegaMessage, console, previewed,
                   nEvents>>

\* Mutant: the callback's catch reports the error in the status area, as the
\* catch of runVegaPreview does.
onChangedFailsSurfaced(r) ==
    /\ runs' = runs \ {r}
    /\ console' = [console EXCEPT !.auto = "Error auto-updating chart:"]
    /\ heap' = Collect(heap, vegaCurrentSpec, pvs, runs \ {r})
    /\ vegaMessage' = "Error rendering chart"
    /\ UNCHANGED chart

\* The callback's catch: the error is logged, nothing else.
onChangedFails(r) ==
    /\ runs' = runs \ {r}
    /\ console' = [console EXCEPT !.auto = "Error auto-updating chart:"]
    /\ heap' = Collect(heap, vegaCurrentSpec, pvs, runs \ {r})
    /\ UNCHANGED <<chart, vegaMessage>>

\* The callback's fetch returns. A null table name makes the lookup fail; a
\* null spec makes `delete spec.$schema` throw.
onChangedFetched(r, ok) ==
    /\ r \in runs
    /\ r.pc = "fetch"
    /\ ok => r.table \in Tables
    /\ IF ok /\ r.spec # NullSpec
       THEN /\ heap' = Inject(heap, r.spec, Values(r.table, tableData[r.table]))
            /\ runs' = (runs \ {r}) \cup
                       {[r EXCEPT !.pc = "embed", !.dt = Values(r.table, tableData[r.table])]}
            /\ UNCHANGED <<chart, vegaMessage, console>>
       ELSE onChangedFails(r)
    /\ UNCHANGED <<editorOpen, vegaAutoUpdateHandler, vegaCurrentTableName, vegaCurrentSpec,
                   subs, tableData, pending, pvs, cl, previewed, nEvents>>

\* vegaEmbed returns to the callback.
onChangedEmbedded(r, ok) ==
    /\ r \in runs
    /\ r.pc = "embed"
    /\ IF ok
       THEN /\ chart' = heap[r.spec].data
            /\ vegaMessage' = ""
            /\ console' = [console EXCEPT !.auto = "Chart auto-updated successfully."]
            /\ runs' = runs \ {r}
            /\ heap' = Collect(heap, vegaCurrentSpec, pvs, runs \ {r})
       ELSE onChangedFails(r)
    /\ UNCHANGED <<editorOpen, vegaAutoUpdateHandler, vegaCurrentTableName, vegaCurrentSpec,
                   subs, tableData, pending, pvs, cl, previewed, nEvents>>

\* ----------------------------------------------------------- outputToExcel
\* The rows of one committed batch.
batchSize == 500
\* The row count above which the result is rejected.
RowLimit == 1000000

\* The texts of output-table-name, as sequences of characters: empty, names
\* the pattern accepts, and names it rejects (a leading digit, a space).
Names == {<<>>, <<"a">>, <<"_", "1">>, <<"a", "_">>, <<"1", "a">>, <<"a", " ">>, <<" ">>}

\* The letters and the digit the names are written with.
Letters == {"a", "A", "C", "D", "E", "G", "I", "M", "P", "R", "S", "T", "V"}
Digits == {"1"}

\* /^[a-zA-Z_][a-zA-Z0-9_]*$/.test(name)
ValidName(name) ==
    /\ Len(name) > 0
    /\ name[1] \in Letters \cup {"_"}
    /\ \A k \in 2..Len(name) : name[k] \in Letters \cup Digits \cup {"_"}

\* The characters of a name, as the string they spell.
RECURSIVE Text(_)
Text(name) == IF name = <<>> THEN "" ELSE Head(name) \o Text(Tail(name))

\* The key of `settings.set(outputTableName, code)`: the name itself.
QueryKey(name) == Text(name)

\* Output names spelled like the keys of the saved diagrams and of the saved
\* charts of table T1, and a plain one.
KeyNames ==
    {<<"a">>,
     <<"M", "E", "R", "M", "A", "I", "D", "_", "S", "P", "E", "C", "S">>,
     <<"V", "E", "G", "A", "_", "S", "P", "E", "C", "S", "_", "T", "1">>}

\* Tables the workbook may hold before the call.
ExistingNames == {<<"a">>, <<"_", "1">>}
\* The rows of a worksheet, as the row-limit message states them.
HostMaxRows == 1048576
\* Row counts of the query result.
RowCounts == {0, 1, 2, batchSize, batchSize + 1, RowLimit + 1, HostMaxRows - 1, HostMaxRows}
\* The rows (by index) whose single-row requests the host may reject for a
\* reason of its own: the first two, the last of the first batch and the first
\* of the second.
FaultRows == {0, 1, batchSize - 1, batchSize}
\* The text of query-code: empty, or a query.
QueryTexts == {"", "dt.filter(...)"}

MsgEnterName == "Please enter a unique name for the output table."
MsgInvalidName == "Error: Table name must start with a letter or underscore and contain only letters, numbers, and underscores (no spaces)."
MsgRowLimit == "Error: Result has ... rows. Excel limit is 1,048,576 rows. Please refine your query."
MsgNoData == "Query returned no data."
MsgExists == "Error: Table '...' already exists. Please choose a different name."
MsgError == "Error: ..."
MsgSuccess == "Success! Table '...' created."
MsgWarning == " (Warning: Failed to save query)"

\* sheet.getRangeByIndexes(startRow, startColumn, rowCount, columnCount)
getRangeByIndexes(startRow, startColumn, rowCount, columnCount) ==
    [row |-> startRow, col |-> startColumn, rowCount |-> rowCount, columnCount |-> columnCount]
\* No write is queued.
NoRange == getRangeByIndexes(0, 0, 0, 0)
\* The numbers of columns of a query result.
Widths == {1, 3}

writeInit ==
    /\ wpc = "idle"
    /\ outputTableName = <<>>
    /\ code = ""
    /\ numRows = 0
    /\ wi = 0
    /\ wj = 0
    /\ sheet = "none"
    /\ rowsWritten = 0
    /\ rowsSentinel = 0
    /\ rowsSkipped = 0
    /\ injected = {}
    /\ faults = 0
    /\ arqueroMessage = <<>>
    /\ settings = "unset"
    /\ numCols = 0
    /\ target = NoRange

\* A host request fails for a reason of its own.
hostFault(kind) ==
    /\ faults < MaxFaults
    /\ faults' = faults + 1
    /\ injected' = injected \cup {kind}

\* A call that does not validate the name.
outputToExcelUnvalidated(name, text) ==
    /\ wpc = "idle"
    /\ outputTableName' = name
    /\ code' = IF text = "" THEN "dt" ELSE text
    /\ arqueroMessage' = <<>>
    /\ wpc' = "source"
    /\ UNCHANGED <<numRows, wi, wj, tables, sheet, rowsWritten, rowsSentinel, rowsSkipped,
                   injected, faults, settings>>

\* Up to the first await: the inputs are read, the message is cleared, the
\* query text is defaulted and the name is validated.
outputToExcel(name, text) ==
    /\ wpc = "idle"
    /\ outputTableName' = name
    /\ code' = IF text = "" THEN "dt" ELSE text
    /\ IF name = <<>>
       THEN arqueroMessage' = <<MsgEnterName>> /\ wpc' = "done"
       ELSE IF ~ValidName(name)
       THEN arqueroMessage' = <<MsgInvalidName>> /\ wpc' = "done"
       ELSE arqueroMessage' = <<>> /\ wpc' = "source"
    /\ UNCHANGED <<numRows, wi, wj, tables, sheet, rowsWritten, rowsSentinel, rowsSkipped,
                   injected, faults, settings>>

\* A call that stores the query before the row-count checks and lets an empty
\* result through.
getTableDataUnchecked(outcome, n) ==
    /\ wpc = "source"
    /\ IF outcome = "throws"
       THEN arqueroMessage' = <<MsgError>> /\ wpc' = "done" /\ UNCHANGED <<numRows, settings>>
       ELSE /\ numRows' = n
            /\ settings' = code
            /\ IF n > RowLimit
               THEN arqueroMessage' = <<MsgRowLimit>> /\ wpc' = "done"
               ELSE wpc' = "lookup" /\ UNCHANGED arqueroMessage
    /\ UNCHANGED <<outputTableName, code, wi, wj, tables, sheet, rowsWritten, rowsSentinel,
                   rowsSkipped, injected, faults>>

\* getTableData and the user's query return (or throw); the row-count checks;
\* the existence lookup is queued.
getTableData(outcome, n) ==
    /\ wpc = "source"
    /\ IF outcome = "throws"
       THEN arqueroMessage' = <<MsgError>> /\ wpc' = "done" /\ UNCHANGED numRows
       ELSE /\ numRows' = n
            /\ IF n > RowLimit
               THEN arqueroMessage' = <<MsgRowLimit>> /\ wpc' = "done"
               ELSE IF n = 0
               THEN arqueroMessage' = <<MsgNoData>> /\ wpc' = "done"
               ELSE wpc' = "lookup" /\ UNCHANGED arqueroMessage
    /\ UNCHANGED <<outputTableName, code, wi, wj, tables, sheet, rowsWritten, rowsSentinel,
                   rowsSkipped, injected, faults, settings>>

\* A lookup whose "found" answer does not stop the write.
lookupSyncedIgnoresFound(outcome) ==
    /\ wpc = "lookup"
    /\ outcome = "found" => outputTableName \in tables
    /\ outcome = "notFound" => outputTableName \notin tables
    /\ IF outcome = "otherError" THEN hostFault("lookup") ELSE UNCHANGED <<faults, injected>>
    /\ wpc' = "batch"
    /\ UNCHANGED <<outputTableName, code, numRows, wi, wj, tables, sheet, rowsWritten,
                   rowsSentinel, rowsSkipped, arqueroMessage, settings>>

\* The sync of the existence lookup returns: the table is found (the code
\* throws "already exists"), the host answers ItemNotFound, or it fails in
\* another way, which the catch ignores. Unless found, the sheet, the header,
\* the table, its name, the resize and the first batch are queued.
lookupSynced(outcome) ==
    /\ wpc = "lookup"
    /\ outcome = "found" => outputTableName \in tables
    /\ outcome = "notFound" => outputTableName \notin tables
    /\ IF outcome = "otherError" THEN hostFault("lookup") ELSE UNCHANGED <<faults, injected>>
    /\ IF outcome = "found"
       THEN arqueroMessage' = <<MsgExists>> /\ wpc' = "done"
       ELSE wpc' = "batch" /\ UNCHANGED arqueroMessage
    /\ UNCHANGED <<outputTableName, code, numRows, wi, wj, tables, sheet, rowsWritten,
                   rowsSentinel, rowsSkipped, settings>>

\* values.slice(i, i + batchSize).length
BatchLen == IF numRows - wi < batchSize THEN numRows - wi ELSE batchSize

\* A loop whose step leaves i where it is.
nextBatchStays ==
    /\ wi' = wi
    /\ wj' = 0
    /\ wpc' = IF wi + batchSize < numRows THEN "batch" ELSE "activate"

\* The outer loop's `i += batchSize` and test; after the loop sheet.activate()
\* is queued.
nextBatch ==
    /\ wi' = wi + batchSize
    /\ wj' = 0
    /\ wpc' = IF wi + batchSize < numRows THEN "batch" ELSE "activate"

\* An inner loop that stops one row early.
nextRowDropsLast ==
    IF wj + 2 < BatchLen
    THEN wj' = wj + 1 /\ wpc' = "row" /\ UNCHANGED wi
    ELSE nextBatch

\* The inner loop's `j++` and test.
nextRow ==
    IF wj + 1 < BatchLen
    THEN wj' = wj + 1 /\ wpc' = "row" /\ UNCHANGED wi
    ELSE nextBatch

\* The sync of a batch returns. The first one also carries the creation of the
\* sheet and of the table: a failed sync has applied the requests queued
\* before the one that failed. The host rejects the table's name if a table of
\* that name exists, and every request on a sheet that was not created.
batchSynced(outcome) ==
    /\ wpc = "batch"
    /\ IF wi = 0
       THEN /\ outcome = "ok" => outputTableName \notin tables
            /\ outcome = "failWrite" => outputTableName \notin tables
            /\ sheet' = CASE outcome = "ok" -> "table"
                          [] outcome = "failSheet" -> "none"
                          [] outcome = "failTable" -> "bare"
                          [] outcome = "failWrite" -> "table"
            /\ IF outcome = "ok" \/ (outcome = "failTable" /\ outputTableName \in tables)
               THEN UNCHANGED <<faults, injected>>
               ELSE hostFault("batch")
       ELSE /\ outcome \in {"ok", "failWrite"}
            /\ outcome = "ok" => sheet # "none"
            /\ IF outcome = "ok" \/ sheet = "none"
               THEN UNCHANGED <<faults, injected>>
               ELSE hostFault("batch")
            /\ UNCHANGED sheet
    /\ IF outcome = "ok"
       THEN rowsWritten' = rowsWritten + BatchLen /\ nextBatch
       ELSE wpc' = "row" /\ wj' = 0 /\ UNCHANGED <<wi, rowsWritten>>
    /\ UNCHANGED <<outputTableName, code, numRows, tables, rowsSentinel, rowsSkipped,
                   arqueroMessage, settings>>

\* The sync of a single row's retry returns.
rowSynced(ok) ==
    /\ wpc = "row"
    /\ ok => sheet # "none"
    /\ IF ok \/ sheet = "none" THEN UNCHANGED <<faults, injected>>
       ELSE wi + wj \in FaultRows /\ hostFault("row")
    /\ IF ok
       THEN rowsWritten' = rowsWritten + 1 /\ nextRow
       ELSE wpc' = "sentinel" /\ UNCHANGED <<wi, wj, rowsWritten>>
    /\ UNCHANGED <<outputTableName, code, numRows, tables, sheet, rowsSentinel, rowsSkipped,
                   arqueroMessage, settings>>

\* The sync of the "ERROR WRITING ROW" placeholder returns.
sentinelSynced(ok) ==
    /\ wpc = "sentinel"
    /\ ok => sheet # "none"
    /\ IF ok \/ sheet = "none" THEN UNCHANGED <<faults, injected>>
       ELSE wi + wj \in FaultRows /\ hostFault("sentinel")
    /\ IF ok
       THEN rowsSentinel' = rowsSentinel + 1 /\ UNCHANGED rowsSkipped
       ELSE rowsSkipped' = rowsSkipped + 1 /\ UNCHANGED rowsSentinel
    /\ nextRow
    /\ UNCHANGED <<outputTableName, code, numRows, tables, sheet, rowsWritten,
                   arqueroMessage, settings>>

\* A call that stores the query whether or not Excel.run threw.
activateSyncedStoresAlways(ok) ==
    /\ wpc = "activate"
    /\ ok => sheet # "none"
    /\ IF ok \/ sheet = "none" THEN UNCHANGED <<faults, injected>> ELSE hostFault("activate")
    /\ settings' = code
    /\ IF ok
       THEN wpc' = "settings" /\ UNCHANGED arqueroMessage
       ELSE arqueroMessage' = <<MsgError>> /\ wpc' = "done"
    /\ UNCHANGED <<outputTableName, code, numRows, wi, wj, tables, sheet, rowsWritten,
                   rowsSentinel, rowsSkipped>>

\* The last sync of Excel.run (sheet.activate) returns. It is outside every
\* try of the loop: a failure reaches the outer catch. On success
\* settings.set stores the query and saveAsync is started.
activateSynced(ok) ==
    /\ wpc = "activate"
    /\ ok => sheet # "none"
    /\ IF ok \/ sheet = "none" THEN UNCHANGED <<faults, injected>> ELSE hostFault("activate")
    /\ IF ok
       THEN settings' = code /\ wpc' = "settings" /\ UNCHANGED arqueroMessage
       ELSE arqueroMessage' = <<MsgError>> /\ wpc' = "done" /\ UNCHANGED settings
    /\ UNCHANGED <<outputTableName, code, numRows, wi, wj, tables, sheet, rowsWritten,
                   rowsSentinel, rowsSkipped>>

\* The saveAsync callback runs (on failure it appends the warning), then the
\* success message is assigned.
settingsSaved(ok) ==
    /\ wpc = "settings"
    /\ IF ok THEN UNCHANGED <<faults, injected>> ELSE hostFault("settings")
    /\ LET afterCallback == IF ok THEN arqueroMessage
                            ELSE Append(arqueroMessage, MsgWarning)
       IN  arqueroMessage' = IF Len(afterCallback) >= 0 THEN <<MsgSuccess>> ELSE afterCallback
    /\ wpc' = "done"
    /\ UNCHANGED <<outputTableName, code, numRows, wi, wj, tables, sheet, rowsWritten,
                   rowsSentinel, rowsSkipped, settings>>

\* values.slice(i, i + batchSize).length, for a result of n rows.
sliceLength(n, i) == IF n - i < batchSize THEN n - i ELSE batchSize

\* The range of a batch: `sheet.getRangeByIndexes(1 + i, 0, batchValues.length,
\* headers.length)`.
batchRange(n, i) == getRangeByIndexes(1 + i, 0, sliceLength(n, i), numCols)

\* A retry that counts the rows from the top of the sheet, not of the batch.
singleRowRangeBatchRelative(i, j) == getRangeByIndexes(1 + j, 0, 1, numCols)

\* The range of a row's retry: `sheet.getRangeByIndexes(1 + i + j, 0, 1,
\* headers.length)`.
singleRowRange(i, j) == getRangeByIndexes(1 + i + j, 0, 1, numCols)

\* A placeholder range as wide as the row.
errorRowRangeWholeRow(i, j) == getRangeByIndexes(1 + i + j, 0, 1, numCols)

\* The range of the placeholder: `sheet.getRangeByIndexes(1 + i + j, 0, 1, 1)`.
errorRowRange(i, j) == getRangeByIndexes(1 + i + j, 0, 1, 1)

\* `const headers = Object.keys(objects[0])`: the result has w columns.
resultShaped(w) ==
    /\ numCols' = w
    /\ target' = NoRange

\* The write a step leaves queued for the next sync: a batch, a row's retry
\* or a placeholder.
queueWrite ==
    /\ target' = CASE wpc' = "batch" -> batchRange(numRows', wi')
                    [] wpc' = "row" -> singleRowRange(wi', wj')
                    [] wpc' = "sentinel" -> errorRowRange(wi', wj')
                    [] OTHER -> NoRange
    /\ UNCHANGED numCols

\* No sync of the loop has returned.
tallyInit == commits = 0 /\ failures = 0

\* One `await context.sync()` of the write loop returns, or throws.
synced(ok) ==
    /\ commits' = commits + 1
    /\ failures' = IF ok THEN failures ELSE failures + 1

\* ------------------------------------------------------------- cell values
\* The length above which a string is cut.
TruncateAt == 32000
\* The length of "...(TRUNCATED)".
MarkerLen == 14

\* A JavaScript value a cell of the query result can hold. A string is a
\* sequence of runs [ch, k]: k characters of class "x" (a letter), "1" (the
\* digit one), "t" (tab, LF or CR), "c" (a control character the pattern
\* [\x00-\x08\x0B\x0C\x0E-\x1F] matches), "m" (the first k characters of
\* "...(TRUNCATED)") or "e" (the first k characters of "[Circular/Error]").
\* For an object, ser is what JSON.stringify does with it ("json": returns
\* the text in runs; "throws"; "undefined": returns undefined, as for an
\* object whose toJSON returns undefined).
JsValue(type, num, ser, chars) == [type |-> type, num |-> num, ser |-> ser, runs |-> chars]
Undefined == JsValue("undefined", 0, "", <<>>)
Null == JsValue("null", 0, "", <<>>)
NaN == JsValue("number", 0, "NaN", <<>>)
Num(n) == JsValue("number", n, "", <<>>)
Bool(b) == JsValue("boolean", IF b THEN 1 ELSE 0, "", <<>>)
DateValue == JsValue("date", 0, "", <<>>)
Obj(ser, chars) == JsValue("object", 0, ser, chars)
Str(chars) == JsValue("string", 0, "", chars)
Run(ch, k) == [ch |-> ch, k |-> k]

\* val.length
RECURSIVE StrLen(_)
StrLen(chars) == IF chars = <<>> THEN 0 ELSE Head(chars).k + StrLen(Tail(chars))

\* val.replace(/[\x00-\x08\x0B\x0C\x0E-\x1F]/g, "")
RemoveControl(chars) == SelectSeq(chars, LAMBDA r : r.ch # "c")

\* val.substring(0, n)
RECURSIVE Substring(_, _)
Substring(chars, n) ==
    IF chars = <<>> \/ n <= 0 THEN <<>>
    ELSE IF Head(chars).k <= n
    THEN <<Head(chars)>> \o Substring(Tail(chars), n - Head(chars).k)
    ELSE <<Run(Head(chars).ch, n)>>

\* A sanitization that cuts long strings and leaves control characters in.
SanitizeKeepsControl(val) ==
    IF val.type \in {"undefined", "null"}
    THEN Str(<<>>)
    ELSE IF val.type = "number" /\ val.ser = "NaN"
    THEN Str(<<>>)
    ELSE LET v1 == IF val.type = "object"
                   THEN CASE val.ser = "json" -> Str(val.runs)
                          [] val.ser = "throws" -> Str(<<Run("e", 16)>>)
                          [] val.ser = "undefined" -> Undefined
                   ELSE val
         IN  IF v1.type = "string" /\ StrLen(v1.runs) > TruncateAt
             THEN Str(Substring(v1.runs, TruncateAt) \o <<Run("m", MarkerLen)>>)
             ELSE v1

\* The function mapped over every cell of the result.
Sanitize(val) ==
    IF val.type \in {"undefined", "null"}
    THEN Str(<<>>)
    ELSE IF val.type = "number" /\ val.ser = "NaN"
    THEN Str(<<>>)
    ELSE LET v1 == IF val.type = "object"
                   THEN CASE val.ser = "json" -> Str(val.runs)
                          [] val.ser = "throws" -> Str(<<Run("e", 16)>>)
                          [] val.ser = "undefined" -> Undefined
                   ELSE val
         IN  IF v1.type = "string"
             THEN LET v2 == RemoveControl(v1.runs)
                  IN  IF StrLen(v2) > TruncateAt
                      THEN Str(Substring(v2, TruncateAt) \o <<Run("m", MarkerLen)>>)
                      ELSE Str(v2)
             ELSE v1

\* The runs strings are built from.
Runs ==
    {Run("x", 1), Run("x", TruncateAt - 1), Run("x", TruncateAt), Run("x", TruncateAt + 1),
     Run("1", 1), Run("c", 1), Run("t", 1), Run("m", MarkerLen)}
Strings == {Str(<<>>)} \cup {Str(<<r>>) : r \in Runs} \cup {Str(<<r, q>>) : r, q \in Runs}
\* The cell values sanitization is applied to.
CellValues ==
    {Undefined, Null, NaN, Num(1), Bool(TRUE), DateValue,
     Obj("json", <<Run("x", 2)>>), Obj("json", <<Run("x", TruncateAt + 1)>>),
     Obj("throws", <<>>), Obj("undefined", <<>>)}
    \cup Strings

\* What a cell holds after `range.values = ...` with val and a sync, as
\* range.values then reads it: the host takes a string as it takes typed input,
\* so a string of digits becomes a number; a Date and undefined have no cell
\* representation of their own and arrive as text and as an empty cell.
RECURSIVE Ones(_)
Ones(k) == IF k = 0 THEN 0 ELSE 10 * Ones(k - 1) + 1
HostCell(val) ==
    CASE val.type = "string" /\ Len(val.runs) = 1 /\ val.runs[1].ch = "1" /\ val.runs[1].k <= 9
            -> Num(Ones(val.runs[1].k))
      [] val.type = "date" -> Str(<<Run("x", 24)>>)
      [] val.type \in {"undefined", "null"} -> Str(<<>>)
      [] OTHER -> val

\* The cell values followed through the round trip.
RoundTripValues == {Undefined, Num(1), Str(<<Run("x", 1)>>), Str(<<Run("1", 1)>>)}
\* The column names of a query result.
ColumnOrders == {<<"a">>, <<"a", "b">>}

cellInit ==
    /\ columns = <<>>
    /\ objects = <<>>
    /\ values = <<>>
    /\ grid = <<>>
    /\ columnData = <<>>
    /\ queued = {}
    /\ trips = <<>>
    /\ cellOut = <<>>
    /\ cpc = "start"

\* One more application of the sanitization to the cell value.
sanitizeCell ==
    /\ Len(cellOut) < MaxSanitize
    /\ cellOut' = Append(cellOut, Sanitize(IF cellOut = <<>> THEN objects[1][columns[1]]
                                            ELSE cellOut[Len(cellOut)]))
    /\ UNCHANGED <<columns, objects, values, grid, columnData, queued, trips, cpc>>

\* A grid whose rows leave out the cells that are empty after sanitization.
sanitizeRowsDropsEmpty ==
    /\ cpc = "start"
    /\ values' = [i \in DOMAIN objects |->
                      SelectSeq([c \in DOMAIN columns |-> Sanitize(objects[i][columns[c]])],
                                LAMBDA v : v # Str(<<>>))]
    /\ cpc' = "sanitized"
    /\ UNCHANGED <<columns, objects, grid, columnData, queued, trips, cellOut>>

\* headers = Object.keys(objects[0]); values = objects.map(obj => headers.map(...)).
sanitizeRows ==
    /\ cpc = "start"
    /\ values' = [i \in DOMAIN objects |->
                      [c \in DOMAIN columns |-> Sanitize(objects[i][columns[c]])]]
    /\ cpc' = "sanitized"
    /\ UNCHANGED <<columns, objects, grid, columnData, queued, trips, cellOut>>

\* The header row and the batches reach the sheet, every sync succeeding: row
\* 0 holds the headers, row 1 + i the values of input row i.
writeRows ==
    /\ cpc = "sanitized"
    /\ grid' = [r \in 0..Len(values) |->
                    IF r = 0 THEN [c \in DOMAIN columns |-> HostCell(Str(<<Run(columns[c], 1)>>))]
                    ELSE [c \in DOMAIN columns |-> HostCell(values[r][c])]]
    /\ cpc' = "written"
    /\ UNCHANGED <<columns, objects, values, columnData, queued, trips, cellOut>>

\* A loop that keeps the column a header was first given.
RECURSIVE forEachHeaderKeepsFirst(_, _, _, _)
forEachHeaderKeepsFirst(headers, rows, colIndex, acc) ==
    IF colIndex > Len(headers) THEN acc
    ELSE forEachHeaderKeepsFirst(headers, rows, colIndex + 1,
             [h \in DOMAIN acc \cup {headers[colIndex]} |->
                 IF h \in DOMAIN acc THEN acc[h]
                 ELSE [i \in DOMAIN rows |-> rows[i][colIndex]]])

\* headers.forEach((header, colIndex) => { columnData[header] = rows.map(row =>
\* row[colIndex]) }), from column colIndex on; acc is columnData so far.
RECURSIVE forEachHeader(_, _, _, _)
forEachHeader(headers, rows, colIndex, acc) ==
    IF colIndex > Len(headers) THEN acc
    ELSE forEachHeader(headers, rows, colIndex + 1,
             [h \in DOMAIN acc \cup {headers[colIndex]} |->
                 IF h = headers[colIndex]
                 THEN [i \in DOMAIN rows |-> rows[i][colIndex]]
                 ELSE acc[h]])

\* The body rows of the table on the sheet (row 0 is the header row).
BodyRows == [i \in 1..(Cardinality(DOMAIN grid) - 1) |-> grid[i]]

\* A call that queues the load of the header row only.
fetchCalledHeaderOnly ==
    /\ cpc = "written"
    /\ queued' = {"headerRange.values"}
    /\ cpc' = "fetching"
    /\ UNCHANGED <<columns, objects, values, grid, columnData, trips, cellOut>>

\* getArqueroTableFromExcel up to its await: the table, its header row and its
\* data body are named and the two loads are queued.
fetchCalled ==
    /\ cpc = "written"
    /\ queued' = {"headerRange.values", "dataRange.values"}
    /\ cpc' = "fetching"
    /\ UNCHANGED <<columns, objects, values, grid, columnData, trips, cellOut>>

\* The context.sync of getArqueroTableFromExcel returns with what was queued:
\* headers = headerRange.values[0], rows = dataRange.values, and columnData is
\* built column by column. A failed sync (no table of that name) rejects the
\* call.
getArqueroTableFromExcel(ok) ==
    /\ cpc = "fetching"
    /\ trips' = Append(trips, queued)
    /\ queued' = {}
    /\ IF ok
       THEN /\ columnData' = forEachHeader(grid[0], BodyRows, 1, <<>>)
            /\ cpc' = "built"
       ELSE /\ cpc' = "failed"
            /\ UNCHANGED columnData
    /\ UNCHANGED <<columns, objects, values, grid, cellOut>>

\* The batch function returns and Excel.run sends what is still queued, which
\* is nothing; the call returns the table.
fetchReturned ==
    /\ cpc = "built"
    /\ trips' = IF queued = {} THEN trips ELSE Append(trips, queued)
    /\ queued' = {}
    /\ cpc' = "fetched"
    /\ UNCHANGED <<columns, objects, values, grid, columnData, cellOut>>

\* ------------------------------------------------- saved chart and diagram specs
\* A key that leaves the table out.
VegaKeyShared(tableName) == "VEGA_SPECS_"
\* The settings key of a table's chart specs: `VEGA_SPECS_${tableName}`.
VegaKey(tableName) == "VEGA_SPECS_" \o tableName
MermaidKey == "MERMAID_SPECS"
SettingsKeys == {VegaKey(t) : t \in Tables} \cup {MermaidKey}

\* settings.get of a key never set (a value no stored list equals).
Unset == <<[unset |-> TRUE]>>
\* The value of the "-- New Chart --" / "-- New Diagram --" option.
NewOption == ""
\* What the user has typed into a chart-name field and the editor next to it:
\* no name, or one of two names each with its own text.
Typed == {<<"", "bar">>, <<"Sales", "bar">>, <<"Costs", "line">>}
\* Values the save handlers may read from a spec dropdown: the sentinel, the
\* ids Date.now() can have produced, and an id no stored list holds.
SpecIds == {NewOption, "stale"} \cup {ToString(t) : t \in 1..MaxSaves}

saveInit ==
    /\ docSettings = [k \in SettingsKeys |-> Unset]
    /\ vegaSpecSelect = [options |-> <<>>, value |-> NewOption]
    /\ mermaidSpecSelect = [options |-> <<>>, value |-> NewOption]
    /\ saveStatus = [vega |-> "", mermaid |-> ""]
    /\ saving = <<>>
    /\ now = 1
    /\ nSaves = 0

\* `let specs = []; if (savedSpecs) specs = JSON.parse(savedSpecs)`.
StoredSpecs(key) == IF docSettings[key] = Unset THEN <<>> ELSE docSettings[key]

\* specs.findIndex(s => s.id === specId): the first match, 0 for -1.
findIndex(specs, specId) ==
    IF \E k \in DOMAIN specs : specs[k].id = specId
    THEN Min({k \in DOMAIN specs : specs[k].id = specId})
    ELSE 0

\* A dropdown value that leaves the added option out.
WithOptionForgotten(select, newId) == [options |-> select.options, value |-> newId]

\* A dropdown that gets the new option and keeps its selection.
WithOptionUnselected(select, newId) ==
    [options |-> Append(select.options, newId), value |-> select.value]

\* select.appendChild(option); select.value = newId.
WithOption(select, newId) == [options |-> Append(select.options, newId), value |-> newId]

\* The dropdown as loadVegaSpecs and loadMermaidSpecs rebuild it: the "new"
\* option, then one option per stored entry.
Reloaded(specs) ==
    [options |-> <<NewOption>> \o [k \in DOMAIN specs |-> specs[k].id], value |-> NewOption]

\* Time passes: a millisecond or more between two clicks on Save (two clicks
\* may also fall into the same millisecond).
tick ==
    /\ now <= nSaves
    /\ nSaves < MaxSaves
    /\ now' = now + 1
    /\ UNCHANGED <<docSettings, vegaSpecSelect, mermaidSpecSelect, saveStatus, saving, nSaves>>

loadVegaSpecs(tableName) ==
    /\ vegaSpecSelect' = Reloaded(StoredSpecs(VegaKey(tableName)))
    /\ UNCHANGED <<docSettings, mermaidSpecSelect, saveStatus, saving, now, nSaves>>

loadMermaidSpecs ==
    /\ mermaidSpecSelect' = Reloaded(StoredSpecs(MermaidKey))
    /\ UNCHANGED <<docSettings, vegaSpecSelect, saveStatus, saving, now, nSaves>>

\* The user picks an option of vega-spec-select.
onVegaSpecSelect(specId) ==
    /\ \E k \in DOMAIN vegaSpecSelect.options : vegaSpecSelect.options[k] = specId
    /\ vegaSpecSelect' = [vegaSpecSelect EXCEPT !.value = specId]
    /\ UNCHANGED <<docSettings, mermaidSpecSelect, saveStatus, saving, now, nSaves>>

\* The user picks an option of mermaid-spec-select.
onMermaidSpecSelect(specId) ==
    /\ \E k \in DOMAIN mermaidSpecSelect.options : mermaidSpecSelect.options[k] = specId
    /\ mermaidSpecSelect' = [mermaidSpecSelect EXCEPT !.value = specId]
    /\ UNCHANGED <<docSettings, vegaSpecSelect, saveStatus, saving, now, nSaves>>

\* saveVegaSpec up to the start of saveAsync. tableName, chartName, the spec
\* text (whether it parses, and what it parses to) and specId are read from
\* the pane.
saveVegaSpec(tableName, chartName, parses, spec, specId) ==
    /\ nSaves < MaxSaves
    /\ nSaves' = nSaves + 1
    /\ IF tableName = NoTable \/ chartName = ""
       THEN /\ saveStatus' = [saveStatus EXCEPT !.vega = "Please select a table and enter a chart name."]
            /\ UNCHANGED <<docSettings, vegaSpecSelect, saving>>
       ELSE IF ~parses
       THEN /\ saveStatus' = [saveStatus EXCEPT !.vega = "Invalid JSON spec."]
            /\ UNCHANGED <<docSettings, vegaSpecSelect, saving>>
       ELSE LET settingsKey == VegaKey(tableName)
                specs == StoredSpecs(settingsKey)
                index == findIndex(specs, specId)
                newId == ToString(now)
            IN  /\ saveStatus' = [saveStatus EXCEPT !.vega = ""]
                /\ IF specId # NewOption
                   THEN /\ docSettings' =
                              [docSettings EXCEPT ![settingsKey] =
                                  IF index > 0
                                  THEN [specs EXCEPT ![index].name = chartName,
                                                     ![index].spec = spec]
                                  ELSE specs]
                        /\ UNCHANGED vegaSpecSelect
                   ELSE /\ docSettings' =
                              [docSettings EXCEPT ![settingsKey] =
                                  Append(specs, [id |-> newId, name |-> chartName,
                                                 spec |-> spec])]
                        /\ vegaSpecSelect' = WithOption(vegaSpecSelect, newId)
                /\ saving' = Append(saving, "vega")
    /\ UNCHANGED <<mermaidSpecSelect, now>>

\* A save that puts a new entry in front of the list.
saveMermaidSpecPrepends(chartName, text, specId) ==
    /\ nSaves < MaxSaves
    /\ nSaves' = nSaves + 1
    /\ IF chartName = ""
       THEN /\ saveStatus' = [saveStatus EXCEPT !.mermaid = "Please enter a diagram name."]
            /\ UNCHANGED <<docSettings, mermaidSpecSelect, saving>>
       ELSE LET specs == StoredSpecs(MermaidKey)
                index == findIndex(specs, specId)
                newId == ToString(now)
            IN  /\ saveStatus' = [saveStatus EXCEPT !.mermaid = ""]
                /\ IF specId # NewOption
                   THEN /\ docSettings' =
                              [docSettings EXCEPT ![MermaidKey] =
                                  IF index > 0
                                  THEN [specs EXCEPT ![index].name = chartName,
                                                     ![index].code = text]
                                  ELSE specs]
                        /\ UNCHANGED mermaidSpecSelect
                   ELSE /\ docSettings' =
                              [docSettings EXCEPT ![MermaidKey] =
                                  <<[id |-> newId, name |-> chartName, code |-> text]>> \o specs]
                        /\ mermaidSpecSelect' = WithOption(mermaidSpecSelect, newId)
                /\ saving' = Append(saving, "mermaid")
    /\ UNCHANGED <<vegaSpecSelect, now>>

\* saveMermaidSpec up to the start of saveAsync.
saveMermaidSpec(chartName, text, specId) ==
    /\ nSaves < MaxSaves
    /\ nSaves' = nSaves + 1
    /\ IF chartName = ""
       THEN /\ saveStatus' = [saveStatus EXCEPT !.mermaid = "Please enter a diagram name."]
            /\ UNCHANGED <<docSettings, mermaidSpecSelect, saving>>
       ELSE LET specs == StoredSpecs(MermaidKey)
                index == findIndex(specs, specId)
                newId == ToString(now)
            IN  /\ saveStatus' = [saveStatus EXCEPT !.mermaid = ""]
                /\ IF specId # NewOption
                   THEN /\ docSettings' =
                              [docSettings EXCEPT ![MermaidKey] =
                                  IF index > 0
                                  THEN [specs EXCEPT ![index].name = chartName,
                                                     ![index].code = text]
                                  ELSE specs]
                        /\ UNCHANGED mermaidSpecSelect
                   ELSE /\ docSettings' =
                              [docSettings EXCEPT ![MermaidKey] =
                                  Append(specs, [id |-> newId, name |-> chartName,
                                                 code |-> text])]
                        /\ mermaidSpecSelect' = WithOption(mermaidSpecSelect, newId)
                /\ saving' = Append(saving, "mermaid")
    /\ UNCHANGED <<vegaSpecSelect, now>>

\* A callback that drops the stored lists and the added options when the
\* commit failed.
settingsSaveReturnedRollsBack(ok) ==
    /\ saving # <<>>
    /\ saving' = Tail(saving)
    /\ saveStatus' =
          IF Head(saving) = "vega"
          THEN [saveStatus EXCEPT !.vega = IF ok THEN "Spec saved successfully."
                                           ELSE "Failed to save spec."]
          ELSE [saveStatus EXCEPT !.mermaid = IF ok THEN "Diagram saved successfully."
                                              ELSE "Failed to save diagram."]
    /\ IF ok THEN UNCHANGED <<docSettings, vegaSpecSelect, mermaidSpecSelect>>
       ELSE /\ docSettings' = [k \in SettingsKeys |-> Unset]
            /\ vegaSpecSelect' = Reloaded(<<>>)
            /\ mermaidSpecSelect' = Reloaded(<<>>)
    /\ UNCHANGED <<now, nSaves>>

\* The callback of the oldest saveAsync runs.
settingsSaveReturned(ok) ==
    /\ saving # <<>>
    /\ saving' = Tail(saving)
    /\ saveStatus' =
          IF Head(saving) = "vega"
          THEN [saveStatus EXCEPT !.vega = IF ok THEN "Spec saved successfully."
                                           ELSE "Failed to save spec."]
          ELSE [saveStatus EXCEPT !.mermaid = IF ok THEN "Diagram saved successfully."
                                              ELSE "Failed to save diagram."]
    /\ UNCHANGED <<docSettings, vegaSpecSelect, mermaidSpecSelect, now, nSaves>>

\* ------------------------------------------------------------ the two editors
\* No table is selected before the chart editor has offered the tables.
paneInit == vegaTableSelect = NoTable

\* loadVegaTables after its sync: the options are rebuilt from the workbook's
\* tables, and the value is kept if its option is still there.
loadVegaTables(kept) ==
    /\ vegaTableSelect' = IF kept THEN vegaTableSelect ELSE NoTable
    /\ UNCHANGED saveVars

\* The user picks an option of vega-table-select: the empty option returns at
\* once, a table has its specs loaded.
onVegaTableSelect(tableName) ==
    /\ vegaTableSelect' = tableName
    /\ IF tableName = NoTable THEN UNCHANGED saveVars ELSE loadVegaSpecs(tableName)

\* checkSelectionForVega after its sync, the selected range lying in table
\* tableName: `select.value = tableName; await onVegaTableSelect()`.
checkSelectionForVega(tableName) ==
    /\ vegaTableSelect' = tableName
    /\ loadVegaSpecs(tableName)

\* openMermaidEditor shows the editor and loads the diagram list.
openMermaidEditor ==
    /\ loadMermaidSpecs
    /\ UNCHANGED paneVars

\* A click on save-vega-spec: the handler reads the table and the selected id
\* from the two dropdowns, the name and the spec text from the editor.
clickSaveVegaSpec(chartName, parses, spec) ==
    /\ saveVegaSpec(vegaTableSelect, chartName, parses, spec, vegaSpecSelect.value)
    /\ UNCHANGED paneVars

\* A click on save-mermaid-spec, a button of the editor that openMermaidEditor
\* shows.
clickSaveMermaidSpec(chartName, text) ==
    /\ mermaidSpecSelect.options # <<>>
    /\ saveMermaidSpec(chartName, text, mermaidSpecSelect.value)
    /\ UNCHANGED paneVars

\* ------------------------------------------------------------ specification
\* spec.data of the spec text in the editor: absent, as in the default spec that
\* loadVegaSpecs puts there.
SpecInputs == {NoData}

\* The chart editor: the user's clicks, the host's answers and notifications.
Init == vegaInit /\ writeInit /\ tables = {} /\ saveInit /\ cellInit /\ paneInit /\ histInit /\ tallyInit

Next ==
    \/ openVegaEditor /\ UNCHANGED <<writeVars, saveVars, cellVars, paneVars, histVars, tallyVars>>
    \/ \E t \in Tables \cup {NoTable}, parses \in BOOLEAN, d \in SpecInputs :
          runVegaPreview(t, parses, d) /\ storesGlobals(t, parses)
             /\ UNCHANGED <<writeVars, saveVars, cellVars, paneVars, tallyVars>>
    \/ \E p \in pvs, ok \in BOOLEAN : previewFetched(p, ok) /\ UNCHANGED <<writeVars, saveVars, cellVars, paneVars, histVars, tallyVars>>
    \/ \E p \in pvs, ok \in BOOLEAN : previewEmbedded(p, ok) /\ UNCHANGED <<writeVars, saveVars, cellVars, paneVars, histVars, tallyVars>>
    \/ \E p \in pvs, ok \in BOOLEAN : previewRemoved(p, ok) /\ UNCHANGED <<writeVars, saveVars, cellVars, paneVars, histVars, tallyVars>>
    \/ \E p \in pvs, ok \in BOOLEAN : previewAdded(p, ok) /\ UNCHANGED <<writeVars, saveVars, cellVars, paneVars, histVars, tallyVars>>
    \/ closeVegaEditor /\ UNCHANGED <<writeVars, saveVars, cellVars, paneVars, histVars, tallyVars>>
    \/ \E ok \in BOOLEAN : closeRemoved(ok) /\ UNCHANGED <<writeVars, saveVars, cellVars, paneVars, histVars, tallyVars>>
    \/ \E t \in Tables : tableChanged(t) /\ UNCHANGED <<writeVars, saveVars, cellVars, paneVars, histVars, tallyVars>>
    \/ onChanged /\ UNCHANGED <<writeVars, saveVars, cellVars, paneVars, histVars, tallyVars>>
    \/ \E r \in runs, ok \in BOOLEAN : onChangedFetched(r, ok) /\ UNCHANGED <<writeVars, saveVars, cellVars, paneVars, histVars, tallyVars>>
    \/ \E r \in runs, ok \in BOOLEAN : onChangedEmbedded(r, ok) /\ UNCHANGED <<writeVars, saveVars, cellVars, paneVars, histVars, tallyVars>>

Spec == Init /\ [][Next]_vars

\* One outputToExcel call, on a workbook that holds any of ExistingNames.
InitWrite == vegaInit /\ writeInit /\ tables \in SUBSET ExistingNames /\ saveInit /\ cellInit /\ paneInit /\ histInit /\ tallyInit

NextWrite ==
    \/ \E name \in Names, text \in QueryTexts :
          outputToExcel(name, text) /\ queueWrite /\ UNCHANGED <<vegaVars, saveVars, cellVars, paneVars, histVars, tallyVars>>
    \/ \E outcome \in {"ok", "throws"}, n \in RowCounts, w \in Widths :
          getTableData(outcome, n) /\ resultShaped(w)
             /\ UNCHANGED <<vegaVars, saveVars, cellVars, paneVars, histVars, tallyVars>>
    \/ \E outcome \in {"found", "notFound", "otherError"} :
          lookupSynced(outcome) /\ queueWrite /\ UNCHANGED <<vegaVars, saveVars, cellVars, paneVars, histVars, tallyVars>>
    \/ \E outcome \in {"ok", "failSheet", "failTable", "failWrite"} :
          batchSynced(outcome) /\ queueWrite /\ synced(outcome = "ok")
             /\ UNCHANGED <<vegaVars, saveVars, cellVars, paneVars, histVars>>
    \/ \E ok \in BOOLEAN :
          rowSynced(ok) /\ queueWrite /\ synced(ok)
             /\ UNCHANGED <<vegaVars, saveVars, cellVars, paneVars, histVars>>
    \/ \E ok \in BOOLEAN :
          sentinelSynced(ok) /\ queueWrite /\ synced(ok)
             /\ UNCHANGED <<vegaVars, saveVars, cellVars, paneVars, histVars>>
    \/ \E ok \in BOOLEAN : activateSynced(ok) /\ queueWrite /\ UNCHANGED <<vegaVars, saveVars, cellVars, paneVars, histVars, tallyVars>>
    \/ \E ok \in BOOLEAN : settingsSaved(ok) /\ queueWrite /\ UNCHANGED <<vegaVars, saveVars, cellVars, paneVars, histVars, tallyVars>>

SpecWrite == InitWrite /\ [][NextWrite]_vars

\* The same call on a workbook that holds table "a" or no table, every awaited
\* host request returning or throwing in the end.
InitWriteFair == InitWrite /\ tables \subseteq {<<"a">>}

SpecWriteFair == InitWriteFair /\ [][NextWrite]_vars /\ WF_vars(NextWrite)

\* One outputToExcel call with a name of KeyNames and a result of one or two
\* rows, the write loop meeting no failure.
NextKey ==
    \/ \E name \in KeyNames, text \in QueryTexts :
          outputToExcel(name, text) /\ queueWrite
             /\ UNCHANGED <<vegaVars, saveVars, cellVars, paneVars, histVars, tallyVars>>
    \/ \E n \in 1..MaxRows, w \in Widths :
          getTableData("ok", n) /\ resultShaped(w)
             /\ UNCHANGED <<vegaVars, saveVars, cellVars, paneVars, histVars, tallyVars>>
    \/ \E outcome \in {"found", "notFound", "otherError"} :
          lookupSynced(outcome) /\ queueWrite
             /\ UNCHANGED <<vegaVars, saveVars, cellVars, paneVars, histVars, tallyVars>>
    \/ batchSynced("ok") /\ queueWrite /\ synced(TRUE)
          /\ UNCHANGED <<vegaVars, saveVars, cellVars, paneVars, histVars>>
    \/ \E ok \in BOOLEAN :
          activateSynced(ok) /\ queueWrite
             /\ UNCHANGED <<vegaVars, saveVars, cellVars, paneVars, histVars, tallyVars>>
    \/ \E ok \in BOOLEAN :
          settingsSaved(ok) /\ queueWrite
             /\ UNCHANGED <<vegaVars, saveVars, cellVars, paneVars, histVars, tallyVars>>

SpecKey == InitWrite /\ [][NextKey]_vars

\* The Save buttons and the dropdowns of the two spec editors.
InitSave == vegaInit /\ writeInit /\ tables = {} /\ saveInit /\ cellInit /\ paneInit /\ histInit /\ tallyInit

NextSave ==
    \/ tick /\ UNCHANGED <<vegaVars, writeVars, cellVars, paneVars, histVars, tallyVars>>
    \/ \E t \in Tables : loadVegaSpecs(t) /\ UNCHANGED <<vegaVars, writeVars, cellVars, paneVars, histVars, tallyVars>>
    \/ loadMermaidSpecs /\ UNCHANGED <<vegaVars, writeVars, cellVars, paneVars, histVars, tallyVars>>
    \/ \E id \in SpecIds : onVegaSpecSelect(id) /\ UNCHANGED <<vegaVars, writeVars, cellVars, paneVars, histVars, tallyVars>>
    \/ \E id \in SpecIds : onMermaidSpecSelect(id) /\ UNCHANGED <<vegaVars, writeVars, cellVars, paneVars, histVars, tallyVars>>
    \/ \E t \in Tables \cup {NoTable}, ty \in Typed, parses \in BOOLEAN, id \in SpecIds :
          saveVegaSpec(t, ty[1], parses, ty[2], id) /\ UNCHANGED <<vegaVars, writeVars, cellVars, paneVars, histVars, tallyVars>>
    \/ \E ty \in Typed, id \in SpecIds :
          saveMermaidSpec(ty[1], ty[2], id) /\ UNCHANGED <<vegaVars, writeVars, cellVars, paneVars, histVars, tallyVars>>
    \/ \E ok \in BOOLEAN : settingsSaveReturned(ok) /\ UNCHANGED <<vegaVars, writeVars, cellVars, paneVars, histVars, tallyVars>>

SpecSave == InitSave /\ [][NextSave]_vars

\* The two spec editors as the user drives them: every value a save handler
\* reads from a dropdown is the value the dropdown has.
InitPane == vegaInit /\ writeInit /\ tables = {} /\ saveInit /\ cellInit /\ paneInit /\ histInit /\ tallyInit

NextPane ==
    \/ tick /\ UNCHANGED <<vegaVars, writeVars, cellVars, paneVars, histVars, tallyVars>>
    \/ \E kept \in BOOLEAN : loadVegaTables(kept) /\ UNCHANGED <<vegaVars, writeVars, cellVars, histVars, tallyVars>>
    \/ \E t \in Tables \cup {NoTable} : onVegaTableSelect(t) /\ UNCHANGED <<vegaVars, writeVars, cellVars, histVars, tallyVars>>
    \/ \E t \in Tables : checkSelectionForVega(t) /\ UNCHANGED <<vegaVars, writeVars, cellVars, histVars, tallyVars>>
    \/ openMermaidEditor /\ UNCHANGED <<vegaVars, writeVars, cellVars, histVars, tallyVars>>
    \/ \E id \in SpecIds : onVegaSpecSelect(id) /\ UNCHANGED <<vegaVars, writeVars, cellVars, paneVars, histVars, tallyVars>>
    \/ \E id \in SpecIds : onMermaidSpecSelect(id) /\ UNCHANGED <<vegaVars, writeVars, cellVars, paneVars, histVars, tallyVars>>
    \/ \E ty \in Typed, parses \in BOOLEAN :
          clickSaveVegaSpec(ty[1], parses, ty[2]) /\ UNCHANGED <<vegaVars, writeVars, cellVars, histVars, tallyVars>>
    \/ \E ty \in Typed : clickSaveMermaidSpec(ty[1], ty[2]) /\ UNCHANGED <<vegaVars, writeVars, cellVars, histVars, tallyVars>>
    \/ \E ok \in BOOLEAN : settingsSaveReturned(ok) /\ UNCHANGED <<vegaVars, writeVars, cellVars, paneVars, histVars, tallyVars>>

SpecPane == InitPane /\ [][NextPane]_vars

\* The sanitization applied to one cell value, again and again.
InitSanitize ==
    /\ vegaInit /\ writeInit /\ tables = {} /\ saveInit /\ paneInit /\ histInit /\ tallyInit
    /\ columns = <<"a">>
    /\ objects \in {<<[h \in {"a"} |-> v]>> : v \in CellValues}
    /\ values = <<>> /\ grid = <<>> /\ columnData = <<>> /\ queued = {} /\ trips = <<>>
    /\ cellOut = <<>> /\ cpc = "start"

NextSanitize == sanitizeCell /\ UNCHANGED <<vegaVars, writeVars, saveVars, paneVars, histVars, tallyVars>>

SpecSanitize == InitSanitize /\ [][NextSanitize]_vars

\* A query result written to a new table and read back, no host request
\* failing.
InitRoundTrip ==
    /\ vegaInit /\ writeInit /\ tables = {} /\ saveInit /\ paneInit /\ histInit /\ tallyInit
    /\ columns \in ColumnOrders
    /\ \E n \in 1..MaxRows :
          objects \in [1..n -> [{columns[c] : c \in DOMAIN columns} -> RoundTripValues]]
    /\ values = <<>> /\ grid = <<>> /\ columnData = <<>> /\ queued = {} /\ trips = <<>>
    /\ cellOut = <<>> /\ cpc = "start"

NextRoundTrip ==
    \/ sanitizeRows /\ UNCHANGED <<vegaVars, writeVars, saveVars, paneVars, histVars, tallyVars>>
    \/ writeRows /\ UNCHANGED <<vegaVars, writeVars, saveVars, paneVars, histVars, tallyVars>>
    \/ fetchCalled /\ UNCHANGED <<vegaVars, writeVars, saveVars, paneVars, histVars, tallyVars>>
    \/ getArqueroTableFromExcel(TRUE) /\ UNCHANGED <<vegaVars, writeVars, saveVars, paneVars, histVars, tallyVars>>
    \/ fetchReturned /\ UNCHANGED <<vegaVars, writeVars, saveVars, paneVars, histVars, tallyVars>>

SpecRoundTrip == InitRoundTrip /\ [][NextRoundTrip]_vars

\* getArqueroTableFromExcel on a table of the workbook: up to MaxColumns
\* columns whose header texts may repeat, and up to MaxRows body rows.
HeaderTexts == {Str(<<Run("a", 1)>>), Str(<<Run("b", 1)>>)}
BodyValues == {Num(1), Num(2)}
InitFetch ==
    /\ vegaInit /\ writeInit /\ tables = {} /\ saveInit /\ paneInit /\ histInit /\ tallyInit
    /\ columns = <<>> /\ objects = <<>> /\ values = <<>>
    /\ \E w \in 1..MaxColumns, n \in 1..MaxRows :
          grid \in [0..n -> [1..w -> HeaderTexts \cup BodyValues]]
    /\ \A c \in DOMAIN grid[0] : grid[0][c] \in HeaderTexts
    /\ \A i \in DOMAIN grid \ {0} : \A c \in DOMAIN grid[i] : grid[i][c] \in BodyValues
    /\ columnData = <<>> /\ queued = {} /\ trips = <<>>
    /\ cellOut = <<>> /\ cpc = "written"

NextFetch ==
    \/ fetchCalled /\ UNCHANGED <<vegaVars, writeVars, saveVars, paneVars, histVars, tallyVars>>
    \/ \E ok \in BOOLEAN :
          getArqueroTableFromExcel(ok) /\ UNCHANGED <<vegaVars, writeVars, saveVars, paneVars, histVars, tallyVars>>
    \/ fetchReturned /\ UNCHANGED <<vegaVars, writeVars, saveVars, paneVars, histVars, tallyVars>>

SpecFetch == InitFetch /\ [][NextFetch]_vars

\* ------------------------------------------------- the auto-update session
\* C1: at most one table-changed subscription is live on the host at any time.
C1_AtMostOneSubscription == Cardinality(subs) <= 1

\* closeVegaEditor returns in this step (it is the only code that hides the
\* editor, and hiding it is the last thing it does).
CloseReturns == editorOpen /\ ~editorOpen'

\* C2: whenever closeVegaEditor has completed, no subscription is live on the
\* host.
C2_CloseLeavesNoSubscription == [][CloseReturns => subs' = {}]_vars

\* Preview p returns without an error in this step: either setupVegaAutoUpdate
\* found nothing to do, or the sync of its add succeeded.
PreviewSucceeds(p) ==
    \/ previewAdded(p, TRUE)
    \/ previewEmbedded(p, TRUE) /\ pvs' = pvs \ {p}

\* C3: when a preview on a table completes while the stored handler is
\* subscribed to another table, the old subscription has been removed and the
\* live subscription is on the previewed table.
C3_SwitchReattaches ==
    [][\A p \in pvs :
          PreviewSucceeds(p) /\ vegaAutoUpdateHandler \in subs
                             /\ vegaAutoUpdateHandler.table # p.table
          => subs' # {} /\ \A h \in subs' : h.table = p.table]_vars

\* C4: a re-render started by a change notification shows the rows it fetched.
C4_RerenderShowsFetchedRows ==
    [][\A r \in runs : onChangedEmbedded(r, TRUE) => chart' = r.dt]_vars

\* No runVegaPreview or closeVegaEditor call is suspended at an await.
Quiescent == pvs = {} /\ cl.pc = "idle"

\* C5: a handler is stored if and only if the editor is open and a preview has
\* completed since it was opened (read between the user's operations).
C5_AttachedIffOpenAndPreviewed ==
    Quiescent => ((vegaAutoUpdateHandler # NoHandler) <=> (editorOpen /\ previewed))

\* The render of callback r fails in this step.
CallbackFails(r) ==
    \/ onChangedFetched(r, FALSE)
    \/ onChangedFetched(r, TRUE) /\ r.spec = NullSpec
    \/ onChangedEmbedded(r, FALSE)

C7_CloseClearsSession ==
    [][cl.pc = "remove" /\ cl'.pc = "idle" =>
          /\ vegaAutoUpdateHandler' = NoHandler
          /\ vegaCurrentTableName' = NullName
          /\ vegaCurrentSpec' = NullSpec
          /\ ~editorOpen']_vars

\* closeVegaEditor has returned after a removal that failed: the session is
\* cleared although the subscription is still registered.
C7_Witness ==
    /\ console.remove = "Error removing event handler:"
    /\ cl.pc = "idle"
    /\ ~editorOpen
    /\ vegaAutoUpdateHandler = NoHandler
    /\ vegaCurrentTableName = NullName
    /\ vegaCurrentSpec = NullSpec
    /\ subs # {}

\* C31: the render that a change notification starts is given the table name
\* and the spec that the latest runVegaPreview stored.
C31_RerenderUsesLastStored ==
    [][onChanged =>
          [pc |-> "fetch", table |-> lastStored.table, spec |-> lastStored.spec,
           dt |-> NoData] \in runs']_vars

\* ------------------------------------------------------------ the write-back
\* Excel.run has left the batch loop.
WriteLoopLeft == wi > 0 /\ wpc \in {"activate", "settings", "done"}

\* C8: a failed batch commit or a failed single-row write never makes the
\* write-back abort: when the only requests that failed for a reason of their
\* own were batch, row or placeholder commits, the call ends reporting success.
C8_RowFailuresEndInSuccess ==
    (/\ wpc = "done"
     /\ wi > 0
     /\ injected # {}
     /\ injected \subseteq {"batch", "row", "sentinel"})
    => arqueroMessage = <<MsgSuccess>>

\* C9: when the write-back has left the batch loop, the rows written, the rows
\* marked with the placeholder and the rows skipped add up to the input rows.
C9_EveryRowAccounted ==
    WriteLoopLeft => rowsWritten + rowsSentinel + rowsSkipped = numRows

\* A two-batch write has finished with rows in each of the three outcomes.
C9_Witness ==
    /\ wpc = "done"
    /\ numRows = batchSize + 1
    /\ wi >= numRows
    /\ rowsWritten > 0
    /\ rowsSentinel > 0
    /\ rowsSkipped > 0

\* The call has returned for a name the pattern accepts and a result of 1 to
\* RowLimit rows, and every host request was served.
ServedValidCall ==
    /\ wpc = "done"
    /\ ValidName(outputTableName)
    /\ numRows > 0
    /\ numRows <= RowLimit
    /\ injected = {}

WriteProceeds == wpc \in {"batch", "row", "sentinel", "activate", "settings"} \/ sheet # "none"

\* C11: the write proceeds past the existence lookup only when the host
\* answered 'not found': never when the table exists, and never when the lookup
\* failed with another error.
C11_OnlyNotFoundProceeds ==
    WriteProceeds => outputTableName \notin tables /\ "lookup" \notin injected

\* getTableData and the query have returned a result of numRows rows.
ResultCounted == wpc \notin {"idle", "source"} /\ numRows > 0

\* C12: a result is rejected with the row-limit error if and only if it has
\* more than 1,048,575 rows (the host maximum minus the header row).
C12_RejectsIffAboveHostMaximum ==
    ResultCounted => (arqueroMessage = <<MsgRowLimit>> <=> numRows > HostMaxRows - 1)

\* C13: the step that rejects a result for exceeding the row limit is taken
\* before Excel.run is entered for writing, and leaves no sheet, no row
\* and no setting written.
C13_RowLimitBeforeAnyWrite ==
    [][arqueroMessage' = <<MsgRowLimit>> /\ arqueroMessage # <<MsgRowLimit>> =>
          /\ wpc = "source"
          /\ wpc' = "done"
          /\ sheet' = "none"
          /\ rowsWritten' = 0
          /\ rowsSentinel' = 0
          /\ settings' = "unset"]_vars

\* A result above the row limit was rejected.
C13_Witness ==
    /\ wpc = "done"
    /\ numRows > RowLimit
    /\ arqueroMessage = <<MsgRowLimit>>
    /\ settings = "unset"

\* The name is empty, starts with something other than a letter or the
\* underscore, or holds a character other than letters, digits and underscores.
RejectedName(name) ==
    \/ name = <<>>
    \/ name[1] \notin {"a", "_"}
    \/ \E k \in DOMAIN name : name[k] \notin {"a", "1", "_"}

\* C14: a call with an empty name or a name outside the pattern has returned
\* with a message, and has created no sheet or table and written no setting.
C14_BadNameRejected ==
    wpc # "idle" /\ RejectedName(outputTableName) =>
        /\ wpc = "done"
        /\ arqueroMessage \in {<<MsgEnterName>>, <<MsgInvalidName>>}
        /\ sheet = "none"
        /\ settings = "unset"

\* A name with a leading digit was rejected.
C14_Witness ==
    /\ wpc = "done"
    /\ outputTableName = <<"1", "a">>
    /\ arqueroMessage = <<MsgInvalidName>>

\* C15: a result of zero rows ends the call with the empty-result message and
\* no sheet or table.
C15_EmptyResultRejected ==
    (/\ wpc \notin {"idle", "source"}
     /\ ValidName(outputTableName)
     /\ numRows = 0
     /\ arqueroMessage # <<MsgError>>)
    => /\ wpc = "done"
       /\ arqueroMessage = <<MsgNoData>>
       /\ sheet = "none"
       /\ rowsWritten = 0

\* An empty result was rejected.
C15_Witness ==
    /\ wpc = "done"
    /\ numRows = 0
    /\ arqueroMessage = <<MsgNoData>>

\* C16: when the settings save after a successful write fails, the final
\* message is the success message followed by the warning.
C16_WarningFollowsSuccess ==
    wpc = "done" /\ "settings" \in injected => arqueroMessage = <<MsgSuccess, MsgWarning>>

\* C17: when the call has returned, the setting holds the executed query text
\* if Excel.run completed without throwing (the call reports success), and is
\* untouched otherwise.
C17_SettingWrittenIffWriteCompleted ==
    wpc = "done" =>
        IF arqueroMessage = <<MsgSuccess>>
        THEN settings = code /\ code \in {"dt"} \cup (QueryTexts \ {""})
        ELSE settings = "unset"

\* An empty query text was stored as 'dt' after a write that needed retries.
C17_Witness ==
    /\ wpc = "done"
    /\ arqueroMessage = <<MsgSuccess>>
    /\ settings = "dt"
    /\ rowsSentinel > 0

\* ------------------------------------------------------ batches and retries
\* After row wj of the batch at wi the loop goes to the next row of the batch,
\* or past the batch when that was its last row.
Advances ==
    IF wj + 1 < BatchLen
    THEN wpc' = "row" /\ wi' = wi /\ wj' = wj + 1
    ELSE wpc' \in {"batch", "activate"} /\ wi' = wi + batchSize

\* C29: a failed batch commit starts the retry at the batch's first row, each
\* row alone in its own write and commit; a row whose commit succeeds is
\* written; a row whose commit fails has the placeholder queued for its first
\* cell only; the placeholder's commit marks the row or, failing, leaves it
\* skipped; and in each case the retry goes on with the next row of the batch.
C29_RetryRowByRow ==
    [][/\ \A outcome \in {"failSheet", "failTable", "failWrite"} :
             batchSynced(outcome) =>
                 /\ wpc' = "row" /\ wi' = wi /\ wj' = 0
                 /\ rowsWritten' = rowsWritten
                 /\ target' = getRangeByIndexes(wi + 1, 0, 1, numCols)
       /\ rowSynced(TRUE) =>
             /\ rowsWritten' = rowsWritten + 1
             /\ Advances
             /\ wpc' = "row" => target' = getRangeByIndexes(wi + wj + 2, 0, 1, numCols)
       /\ rowSynced(FALSE) =>
             /\ wpc' = "sentinel" /\ wi' = wi /\ wj' = wj
             /\ target' = getRangeByIndexes(wi + wj + 1, 0, 1, 1)
             /\ UNCHANGED <<rowsWritten, rowsSentinel, rowsSkipped>>
       /\ sentinelSynced(TRUE) =>
             /\ rowsSentinel' = rowsSentinel + 1
             /\ UNCHANGED <<rowsWritten, rowsSkipped>>
             /\ Advances
       /\ sentinelSynced(FALSE) =>
             /\ rowsSkipped' = rowsSkipped + 1
             /\ UNCHANGED <<rowsWritten, rowsSentinel>>
             /\ Advances]_vars

\* In a failed batch of a three-column result the first row was written by
\* its retry, and the second row's retry failed: its placeholder is queued.
C29_Witness ==
    /\ wpc = "sentinel"
    /\ wi = 0
    /\ wj = 1
    /\ rowsWritten = 1
    /\ numCols = 3
    /\ target = getRangeByIndexes(2, 0, 1, 1)

\* The queued write lies within the rows 1..numRows and the columns
\* 0..numCols - 1 of the sheet.
InsideData ==
    /\ target.row >= 1
    /\ target.rowCount >= 1
    /\ target.row + target.rowCount - 1 <= numRows
    /\ target.col >= 0
    /\ target.columnCount >= 1
    /\ target.col + target.columnCount - 1 <= numCols - 1

\* C30: the batches start at the multiples of 500 and hold the rows up to
\* the next multiple (or to the last row), so at most 500; a batch starting
\* at input row wi is placed at sheet row wi + 1, the retry and the
\* placeholder of input row wi + wj at sheet row wi + wj + 1; and every data
\* write lies within the rows 1..numRows and the columns of the headers.
C30_RowsKeepTheirPlace ==
    /\ wpc = "batch" =>
          /\ wi % batchSize = 0
          /\ wi < numRows
          /\ target.row = wi + 1
          /\ target.rowCount <= batchSize
          /\ target.rowCount = batchSize \/ wi + target.rowCount = numRows
          /\ target.columnCount = numCols
          /\ InsideData
    /\ wpc \in {"row", "sentinel"} =>
          /\ wi + wj < numRows
          /\ target.row = wi + wj + 1
          /\ target.rowCount = 1
          /\ InsideData

\* The only row of the second batch is retried at sheet row 501.
C30_Witness ==
    /\ wpc = "row"
    /\ numRows = batchSize + 1
    /\ wi = batchSize
    /\ target.row = batchSize + 1

\* ------------------------------------------------------- saving named specs
\* The list `new` is `old` with the first entry of id specId renamed, every
\* other entry and the order kept.
RenamedInPlace(old, new, specId, chartName) ==
    /\ Len(new) = Len(old)
    /\ \E k \in DOMAIN old :
          /\ old[k].id = specId
          /\ \A j \in 1..(k - 1) : old[j].id # specId
          /\ new[k].id = specId
          /\ new[k].name = chartName
          /\ \A j \in DOMAIN old \ {k} : new[j] = old[j]

\* The list `new` is `old` with one entry added at the end, whose id is the
\* time of the save.
AppendedNew(old, new, chartName) ==
    /\ Len(new) = Len(old) + 1
    /\ \A j \in DOMAIN old : new[j] = old[j]
    /\ new[Len(new)].id = ToString(now)
    /\ new[Len(new)].name = chartName

IdsOf(specs) == [k \in DOMAIN specs |-> specs[k].id]
\* s is an initial part of t.
IsPrefix(s, t) == Len(s) <= Len(t) /\ \A k \in DOMAIN s : s[k] = t[k]

\* C21: in every step the ids stored under a key keep their places; entries
\* are neither removed nor given another id, and a new id comes at the end.
C21_IdsOnlyAppended ==
    [][\A key \in SettingsKeys :
          LET new == IF docSettings'[key] = Unset THEN <<>> ELSE docSettings'[key]
          IN  IsPrefix(IdsOf(StoredSpecs(key)), IdsOf(new))]_vars

\* Two saves of new diagrams and two of new charts of one table have each left
\* two entries, in the order of the saves.
C21_Witness ==
    \/ IdsOf(StoredSpecs(MermaidKey)) = <<"1", "2">>
    \/ \E t \in Tables : IdsOf(StoredSpecs(VegaKey(t))) = <<"1", "2">>

\* C22: a save of a chart spec for a table changes neither the list of another
\* table nor the diagram list, and a save of a diagram spec changes no chart
\* list.
C22_OtherKeysUntouched ==
    [][/\ \A t \in Tables \cup {NoTable}, ty \in Typed, parses \in BOOLEAN, id \in SpecIds :
             saveVegaSpec(t, ty[1], parses, ty[2], id) =>
                 /\ docSettings'[MermaidKey] = docSettings[MermaidKey]
                 /\ \A u \in Tables \ {t} : docSettings'[VegaKey(u)] = docSettings[VegaKey(u)]
       /\ \A ty \in Typed, id \in SpecIds :
             saveMermaidSpec(ty[1], ty[2], id) =>
                 \A u \in Tables : docSettings'[VegaKey(u)] = docSettings[VegaKey(u)]]_vars

\* A chart of one table and a diagram have been saved, and the other table has
\* no list.
C22_Witness ==
    /\ StoredSpecs(MermaidKey) # <<>>
    /\ \E t \in Tables :
          /\ StoredSpecs(VegaKey(t)) # <<>>
          /\ \A u \in Tables \ {t} : docSettings[VegaKey(u)] = Unset

\* C23: when the commit of a save fails, the callback shows the failure
\* message and leaves the stored lists and both dropdowns as the save made
\* them.
C23_NoRollbackOnFailure ==
    [][settingsSaveReturned(FALSE) =>
          /\ Head(saving) = "vega" => saveStatus'.vega = "Failed to save spec."
          /\ Head(saving) = "mermaid" => saveStatus'.mermaid = "Failed to save diagram."
          /\ UNCHANGED <<docSettings, vegaSpecSelect, mermaidSpecSelect>>]_vars

\* The commit of a new chart's save has failed; its entry is stored and
\* selected.
C23_Witness ==
    /\ saveStatus.vega = "Failed to save spec."
    /\ saving = <<>>
    /\ vegaSpecSelect.value = "1"
    /\ \E t \in Tables : IdsOf(StoredSpecs(VegaKey(t))) = <<"1">>

\* C24: a loaded dropdown holds the "new" option and then one option per
\* stored entry of its scope, in stored order: the diagram dropdown for the
\* diagram list, the chart dropdown for the list of the selected table; while
\* no table is selected neither the chart dropdown nor a chart list changes.
C24_OptionsMirrorStoredList ==
    /\ [](/\ mermaidSpecSelect.options # <<>> =>
                mermaidSpecSelect.options = <<NewOption>> \o IdsOf(StoredSpecs(MermaidKey))
          /\ vegaTableSelect # NoTable =>
                vegaSpecSelect.options =
                    <<NewOption>> \o IdsOf(StoredSpecs(VegaKey(vegaTableSelect))))
    /\ [][vegaTableSelect = NoTable /\ vegaTableSelect' = NoTable =>
             /\ vegaSpecSelect'.options = vegaSpecSelect.options
             /\ \A t \in Tables : docSettings'[VegaKey(t)] = docSettings[VegaKey(t)]]_vars

\* Two charts of the selected table and a diagram have been saved, and every
\* dropdown shows them after the "new" option.
C24_Witness ==
    /\ vegaTableSelect # NoTable
    /\ Len(vegaSpecSelect.options) = 3
    /\ Len(StoredSpecs(VegaKey(vegaTableSelect))) = 2

\* -------------------------------------------------------- host request contexts
\* The Excel.run batches that have been started and have not returned: the
\* fetch, the removal and the registration of a preview, the removal of the
\* close, the fetch of a change callback.
HostContexts ==
    Cardinality({p \in pvs : p.pc \in {"fetch", "remove", "add"}})
    + Cardinality({r \in runs : r.pc = "fetch"})
    + (IF cl.pc = "remove" THEN 1 ELSE 0)

\* C25: no two host request contexts are in flight at once; in particular,
\* while the fetch of a change callback is in flight no preview, no close and
\* no other callback has a context in flight.
C25_OneHostContextAtATime == (\E r \in runs : r.pc = "fetch") => HostContexts <= 1

\* C28: the grid handed to the host has one row per row of the result, and
\* every row has as many cells as there are headers.
C28_RowsAsWideAsHeaders ==
    cpc # "start" =>
        /\ Len(values) = Len(objects)
        /\ \A i \in DOMAIN values : Len(values[i]) = Len(columns)

\* A result of two columns and two rows, one of its cells undefined, has been
\* turned into the grid.
C28_Witness ==
    /\ cpc = "sanitized"
    /\ Len(columns) = 2
    /\ Len(objects) = 2
    /\ \E i \in DOMAIN objects : objects[i]["b"] = Undefined

\* ------------------------------------------------- getArqueroTableFromExcel
\* C26: a call of getArqueroTableFromExcel that has ended, with the table or
\* with an error, has sent one round trip to the host, and that round trip
\* carried the load of the header row's values and of the data body's values.
C26_OneRoundTripForBoth ==
    /\ Len(trips) <= 1
    /\ cpc \in {"fetched", "failed"} =>
          /\ Len(trips) = 1
          /\ {"headerRange.values", "dataRange.values"} \subseteq trips[1]

\* The call has returned a table of two body rows.
C26_Witness ==
    /\ cpc = "fetched"
    /\ Len(trips) = 1
    /\ DOMAIN columnData # {}
    /\ \A h \in DOMAIN columnData : Len(columnData[h]) = 2

\* The last column that header cell c shares its text with.
LastOf(c) == CHOOSE d \in DOMAIN grid[0] :
                 /\ grid[0][d] = grid[0][c]
                 /\ \A e \in DOMAIN grid[0] : grid[0][e] = grid[0][c] => e <= d

\* C27: the table built has one column per header text, holding the values of
\* the last column with that text, and every column has as many values as
\* the table has body rows.
C27_LastDuplicateWins ==
    cpc \in {"built", "fetched"} =>
        /\ DOMAIN columnData = {grid[0][c] : c \in DOMAIN grid[0]}
        /\ \A c \in DOMAIN grid[0] :
              /\ Len(columnData[grid[0][c]]) = Len(BodyRows)
              /\ \A i \in DOMAIN BodyRows : columnData[grid[0][c]][i] = grid[i][LastOf(c)]

\* Two columns with the same header text and different values have been
\* fetched.
C27_Witness ==
    /\ cpc = "fetched"
    /\ \E c, d \in DOMAIN grid[0] :
          /\ c < d
          /\ grid[0][c] = grid[0][d]
          /\ \E i \in DOMAIN BodyRows : grid[i][c] # grid[i][d]

\* ------------------------------------------------------------ cell values
\* C18: sanitizing an already sanitized cell value yields the same value.
C18_SanitizeIdempotent == Len(cellOut) >= 2 => cellOut[2] = cellOut[1]

\* C19: the table read back from a written table has the result's column
\* names and, column by column, the sanitized values of the rows in row order.
C19_RoundTrip ==
    cpc = "fetched" =>
        /\ DOMAIN columnData = {Str(<<Run(columns[c], 1)>>) : c \in DOMAIN columns}
        /\ \A c \in DOMAIN columns, i \in DOMAIN objects :
              columnData[Str(<<Run(columns[c], 1)>>)][i] = Sanitize(objects[i][columns[c]])

\* The reference of the sanitization: null, undefined and NaN give the empty
\* string; an object other than a Date gives a string, its JSON text or the
\* placeholder; a string loses its control characters and is then cut when
\* longer than 32,000 characters; any other value is returned as it is.
C32_Reference(val) ==
    IF val \in {Null, Undefined, NaN}
    THEN Str(<<>>)
    ELSE LET text == CASE val.type = "object" /\ val.ser = "json" -> val.runs
                       [] val.type = "object" /\ val.ser # "json" -> <<Run("e", 16)>>
                       [] val.type = "string" -> val.runs
                       [] OTHER -> <<>>
             stripped == SelectSeq(text, LAMBDA r : r.ch # "c")
         IN  IF val.type \notin {"object", "string"}
             THEN val
             ELSE IF StrLen(stripped) > 32000
             THEN Str(Substring(stripped, 32000) \o <<Run("m", 14)>>)
             ELSE Str(stripped)

\* C32: the sanitized value of every cell value is the value the reference
\* gives for it.
C32_SanitizeEqualsReference ==
    Len(cellOut) >= 1 => cellOut[1] = C32_Reference(objects[1][columns[1]])

\* C39: a string that sanitization produces has at most 32,014 characters and
\* none of the control characters that are stripped.
C39_StringCellsBounded ==
    \A i \in DOMAIN cellOut :
        cellOut[i].type = "string" =>
            /\ StrLen(cellOut[i].runs) <= 32014
            /\ \A r \in DOMAIN cellOut[i].runs : cellOut[i].runs[r].ch # "c"

\* A string of a control character and 32,001 letters has been sanitized: the
\* control character is gone and the cut string has 32,014 characters.
C39_Witness ==
    /\ Len(cellOut) >= 1
    /\ objects[1][columns[1]] = Str(<<Run("c", 1), Run("x", TruncateAt + 1)>>)
    /\ cellOut[1] = Str(<<Run("x", TruncateAt), Run("m", MarkerLen)>>)
    /\ StrLen(cellOut[1].runs) = 32014

\* ------------------------------------------------------------ the two editors
\* A save of a named entry through dropdown select: with the "new" option
\* selected it appends one entry and selects that entry's id; with an id
\* selected it appends nothing, keeps the selection and gives the name to the
\* first entry of that id.
SaveFollowsSelection(select, key, chartName) ==
    LET specs == StoredSpecs(key)
        specsAfter == IF docSettings'[key] = Unset THEN <<>> ELSE docSettings'[key]
    IN  IF select.value = NewOption
        THEN /\ Len(specsAfter) = Len(specs) + 1
             /\ select'.value = specsAfter[Len(specsAfter)].id
             /\ select'.value # NewOption
        ELSE /\ Len(specsAfter) = Len(specs)
             /\ select' = select
             /\ findIndex(specs, select.value) > 0
             /\ specsAfter[findIndex(specs, select.value)].name = chartName
             /\ \A k \in DOMAIN specs :
                   k # findIndex(specs, select.value) => specsAfter[k] = specs[k]

C38_IdsDistinctPerKey ==
    \A key \in SettingsKeys :
        \A j, k \in DOMAIN StoredSpecs(key) :
            j # k => StoredSpecs(key)[j].id # StoredSpecs(key)[k].id

\* ---------------------------------------------------------------- editor
\* C37: a preview whose render throws does not leave its own spec stored.
C37_FailedPreviewLeavesSession ==
    [][\A p \in pvs :
          /\ p.pc \in {"fetch", "embed"}
          /\ previewFetched(p, FALSE) \/ previewEmbedded(p, FALSE)
          => vegaCurrentSpec' # p.spec]_vars

\* ------------------------------------------------------------ the write-back
\* C36: a call that ends with an error message has left no sheet of its own in
\* the workbook.
C36_NoSheetLeftAfterError ==
    wpc = "done" /\ arqueroMessage \in {<<MsgError>>, <<MsgExists>>, <<MsgRowLimit>>}
        => sheet = "none"

\* Math.ceil(n / batchSize)
C35_Batches(n) == (n + batchSize - 1) \div batchSize

\* The place of the loop: the batch at i, then for each of its rows the retry
\* and the placeholder, then the next batch; the end of the loop after all.
C35_Position ==
    CASE wpc = "batch" -> 3 * wi
      [] wpc = "row" -> 3 * (wi + wj) + 1
      [] wpc = "sentinel" -> 3 * (wi + wj) + 2
      [] OTHER -> 3 * numRows

\* C35: a call that has started ends; every sync of the write loop moves the
\* loop forward, so a row is the subject of at most one batch, one retry and
\* one placeholder commit; the loop makes at most ceil(n / 500) + 2n syncs,
\* and exactly ceil(n / 500) when none of them failed.
C35_CommitsBounded ==
    /\ (wpc # "idle") ~> (wpc = "done")
    /\ [](commits <= C35_Batches(numRows) + 2 * numRows)
    /\ [](wpc \in {"batch", "row", "sentinel"} => C35_Position < 3 * numRows)
    /\ [](wpc \in {"activate", "settings"} /\ failures = 0
              => commits = C35_Batches(numRows))
    /\ [][commits' # commits => C35_Position' > C35_Position]_vars

\* A result of 501 rows whose sheet could not be created has been through the
\* loop: both batches, every retry and every placeholder failed, 2 + 2 * 501
\* syncs.
C35_Witness ==
    /\ wpc = "activate"
    /\ numRows = batchSize + 1
    /\ rowsSkipped = numRows
    /\ failures = commits
    /\ commits = 2 + 2 * numRows

\* A result of 501 rows has been written by two syncs, none failing.
C35_WitnessClean ==
    /\ wpc = "activate"
    /\ numRows = batchSize + 1
    /\ failures = 0
    /\ commits = 2

\* C34: the key under which outputToExcel has stored the query is none of the
\* keys of the saved diagrams and charts.
C34_QueryKeyApart ==
    settings # "unset" => QueryKey(outputTableName) \notin SettingsKeys

====
